---------------------------- MODULE Spec2Model ----------------------------
(***************************************************************************)
(* Model of src/app.py: the CSV-backed record store (records.csv), the     *)
(* grade conversion, the SGPA / CGPA aggregation, and the four request     *)
(* handlers index, submit, graph_png and reset_graph.                      *)
(*                                                                         *)
(* Representation.                                                         *)
(*   - A text (a form field, a CSV cell, a chart label) is a sequence of   *)
(*     one-character strings, so that int(), float(), str(), repr() and    *)
(*     the "{:.2f}" format are computed character by character.            *)
(*   - A Python float is a record: [k |-> "num", v |-> n] stands for the   *)
(*     finite value n/1000, [k |-> "nan"] for NaN and [k |-> "inf"] with   *)
(*     v = 1 or v = -1 for the two infinities.  Arithmetic on finite       *)
(*     values is exact; binary rounding of floats is not modelled.         *)
(*   - A quotient sum/len whose value need not be a multiple of 1/1000 is  *)
(*     a record [k |-> "quot", n |-> numerator, d |-> denominator].        *)
(*   - None is the record [k |-> "None"]; a dict is a function.            *)
(*   - The text alphabet is digits, "+", "-", ".", " " and letters; the    *)
(*     exponent and underscore forms of numeric literals are left out.     *)
(***************************************************************************)
EXTENDS Integers, Sequences, FiniteSets, TLC

VARIABLES
    file,   \* records.csv: [exists |-> BOOLEAN, rows |-> sequence of data rows]
    last,   \* the POST served last: its handler, form, response, and the file it found
    log     \* history: the save_record calls since the last reset_graph, in order

vars == <<file, last, log>>

\* ------------------------------------------------------------------ bounds

\* Cap on the number of data rows records.csv may hold.
MaxRows == 2

\* datetime.now() reads a second in 0..MaxTime.
MaxTime == 0

\* --------------------------------------------------------- Python values

None == [k |-> "None"]

Str(t) == [k |-> "str", t |-> t]

PyInt(n) == [k |-> "int", v |-> n]

Num(n) == [k |-> "num", v |-> n]

NaN == [k |-> "nan", v |-> 0]

PosInf == [k |-> "inf", v |-> 1]

NegInf == [k |-> "inf", v |-> -1]

\* a < b on floats: every comparison with NaN is false.
FLt(a, b) ==
    CASE a.k = "nan" \/ b.k = "nan" -> FALSE
      [] a.k = "inf" -> a.v = -1 /\ ~(b.k = "inf" /\ b.v = -1)
      [] b.k = "inf" -> b.v = 1
      [] OTHER -> a.v < b.v

\* a > b on floats.
FGt(a, b) == FLt(b, a)

\* a >= b on floats.
FGe(a, b) ==
    /\ a.k # "nan"
    /\ b.k # "nan"
    /\ ~FLt(a, b)

\* Python truthiness of the values the handlers test: None is false, a
\* non-empty dict (every record dict has five keys) is true, a float is true
\* unless it is zero.
Truthy(x) ==
    CASE x.k = "None" -> FALSE
      [] x.k = "num" -> x.v # 0
      [] OTHER -> TRUE

\* ------------------------------------------------------------------ texts

Digits == <<"0", "1", "2", "3", "4", "5", "6", "7", "8", "9">>

IsDigit(c) == c \in {Digits[i] : i \in 1..10}

\* The value of each digit character.
DigitTable == [c \in {Digits[i] : i \in 1..10} |-> (CHOOSE i \in 1..10 : Digits[i] = c) - 1]

DigitVal(c) == DigitTable[c]

AllDigits(t) == \A i \in 1..Len(t) : IsDigit(t[i])

\* The value of a digit string read as a decimal numeral.
RECURSIVE DecVal(_)
DecVal(t) ==
    IF t = <<>> THEN 0
    ELSE 10 * DecVal(SubSeq(t, 1, Len(t) - 1)) + DigitVal(t[Len(t)])

\* The decimal numeral of a natural number.
RECURSIVE NatToText(_)
NatToText(n) ==
    IF n < 10 THEN <<Digits[n + 1]>>
    ELSE NatToText(n \div 10) \o <<Digits[(n % 10) + 1]>>

\* str(n) of an int.
IntToText(n) == IF n < 0 THEN <<"-">> \o NatToText(-n) ELSE NatToText(n)

\* str.strip(): leading and trailing blanks removed.
RECURSIVE Strip(_)
Strip(t) ==
    IF t = <<>> THEN t
    ELSE IF Head(t) = " " THEN Strip(Tail(t))
    ELSE IF t[Len(t)] = " " THEN Strip(SubSeq(t, 1, Len(t) - 1))
    ELSE t

\* The position of the first "." of t, or 0.
DotAt(t) ==
    IF \E i \in 1..Len(t) : t[i] = "."
    THEN CHOOSE i \in 1..Len(t) : t[i] = "." /\ \A j \in 1..(i - 1) : t[j] # "."
    ELSE 0

\* t with zeros appended or digits dropped to exactly three digits.
Pad3(t) == SubSeq(t \o <<"0", "0", "0">>, 1, 3)

\* The sign a stripped numeral carries: -1 after "-", else 1.
SignOf(t) == IF t # <<>> /\ Head(t) = "-" THEN -1 ELSE 1

\* A stripped numeral without its sign character.
Unsigned(t) == IF t # <<>> /\ Head(t) \in {"+", "-"} THEN Tail(t) ELSE t

\* The int of a sign and a body: the body is one or more digits, or
\* ValueError is raised (ok = FALSE).
IntOf(sign, body) ==
    IF body # <<>> /\ AllDigits(body)
    THEN [ok |-> TRUE, val |-> sign * DecVal(body)]
    ELSE [ok |-> FALSE, val |-> 0]

IntOfStripped(t) == IntOf(SignOf(t), Unsigned(t))

\* int(text): blanks stripped, an optional sign, then digits.
ParseInt(text) == IntOfStripped(Strip(text))

\* The digits before the first "." of a body, and those after it.
IntPart(body) == IF DotAt(body) = 0 THEN body ELSE SubSeq(body, 1, DotAt(body) - 1)

FracPart(body) == IF DotAt(body) = 0 THEN <<>> ELSE SubSeq(body, DotAt(body) + 1, Len(body))

\* The float of a decimal numeral: digits on either side of the point, at
\* least one in all.  Fractions are read to three digits, the resolution of
\* the float model.
Decimal(sign, ip, fp) ==
    IF AllDigits(ip) /\ AllDigits(fp) /\ Len(ip) + Len(fp) > 0
    THEN [ok |-> TRUE, val |-> Num(sign * (1000 * DecVal(ip) + DecVal(Pad3(fp))))]
    ELSE [ok |-> FALSE, val |-> NaN]

\* The float of a sign and a body: "nan", "inf", "infinity" or a decimal
\* numeral; anything else raises ValueError.
FloatOf(sign, body) ==
    IF body = <<"n", "a", "n">> THEN [ok |-> TRUE, val |-> NaN]
    ELSE IF body \in {<<"i", "n", "f">>, <<"i", "n", "f", "i", "n", "i", "t", "y">>}
    THEN [ok |-> TRUE, val |-> IF sign < 0 THEN NegInf ELSE PosInf]
    ELSE Decimal(sign, IntPart(body), FracPart(body))

FloatOfStripped(t) == FloatOf(SignOf(t), Unsigned(t))

\* float(text): blanks stripped, an optional sign, then the numeral.
ParseFloat(text) == FloatOfStripped(Strip(text))

\* The fraction digits of m/1000 with trailing zeros dropped, one digit kept.
RECURSIVE FracText(_)
FracText(t) ==
    IF Len(t) > 1 /\ t[Len(t)] = "0" THEN FracText(SubSeq(t, 1, Len(t) - 1)) ELSE t

\* n in exactly w digits, zero-filled on the left.
RECURSIVE ZeroFill(_, _)
ZeroFill(n, w) ==
    IF w = 0 THEN <<>> ELSE ZeroFill(n \div 10, w - 1) \o <<Digits[(n % 10) + 1]>>

Abs(n) == IF n < 0 THEN -n ELSE n

\* repr(x) of a float, as csv.writer writes a float cell.
FloatRepr(x) ==
    CASE x.k = "nan" -> <<"n", "a", "n">>
      [] x.k = "inf" -> IF x.v < 0 THEN <<"-", "i", "n", "f">> ELSE <<"i", "n", "f">>
      [] OTHER ->
            (IF x.v < 0 THEN <<"-">> ELSE <<>>)
            \o NatToText(Abs(x.v) \div 1000)
            \o <<".">>
            \o FracText(ZeroFill(Abs(x.v) % 1000, 3))

\* n/1000 rounded to the nearest 1/100, ties to even.
RoundCenti(n) ==
    IF n % 10 > 5 \/ (n % 10 = 5 /\ (n \div 10) % 2 = 1)
    THEN (n \div 10) + 1
    ELSE n \div 10

\* f"{x:.2f}" of a float.
Format2f(x) ==
    CASE x.k = "nan" -> <<"n", "a", "n">>
      [] x.k = "inf" -> IF x.v < 0 THEN <<"-", "i", "n", "f">> ELSE <<"i", "n", "f">>
      [] OTHER ->
            (IF x.v < 0 THEN <<"-">> ELSE <<>>)
            \o NatToText(RoundCenti(Abs(x.v)) \div 100)
            \o <<".">>
            \o ZeroFill(RoundCenti(Abs(x.v)) % 100, 2)

\* n/1000 rounded to the nearest 1/10, ties to even.
RoundDeci(n) ==
    IF n % 100 > 50 \/ (n % 100 = 50 /\ (n \div 100) % 2 = 1)
    THEN (n \div 100) + 1
    ELSE n \div 100

\* f"{x:.1f}" of a float.
Format1f(x) ==
    CASE x.k = "nan" -> <<"n", "a", "n">>
      [] x.k = "inf" -> IF x.v < 0 THEN <<"-", "i", "n", "f">> ELSE <<"i", "n", "f">>
      [] OTHER ->
            (IF x.v < 0 THEN <<"-">> ELSE <<>>)
            \o NatToText(RoundDeci(Abs(x.v)) \div 10)
            \o <<".">>
            \o ZeroFill(RoundDeci(Abs(x.v)) % 10, 1)

\* datetime.now().isoformat(timespec="seconds"): the reading of the local
\* clock to the second.  Only the seconds field is kept; the date and the
\* hour and minute are the same in every reading of the model.
IsoSeconds(now) == <<"T">> \o ZeroFill(now, 2)

\* ------------------------------------------------------------ record store

\* The dict with no key.
EmptyDict == [key \in {} |-> None]

\* dict.get(key): the value, or None.
Get(d, key) == IF key \in DOMAIN d THEN d[key] ELSE None

\* d with d[key] = val assigned: a new key is added, an old one overwritten.
Put(d, key, val) == [x \in DOMAIN d \cup {key} |-> IF x = key THEN val ELSE d[x]]

\* The file as ensure_data_file leaves it: created with the header row and no
\* data row when it does not exist, untouched when it does.
ensure_data_file(f) == IF f.exists THEN f ELSE [exists |-> TRUE, rows |-> <<>>]

\* csv.DictReader's row[name] for column i: a row shorter than the header
\* has None in the missing columns.
Cell(row, i) == IF i <= Len(row) THEN Str(row[i]) ELSE None

\* int(cell) / float(cell): None raises TypeError, a bad text ValueError.
CellInt(c) == IF c.k = "None" THEN [ok |-> FALSE, val |-> 0] ELSE ParseInt(c.t)

CellFloat(c) == IF c.k = "None" THEN [ok |-> FALSE, val |-> NaN] ELSE ParseFloat(c.t)

\* The row save_record writes: year and semester as str(int), the marks as
\* repr(float), sgpa with two decimals, the timestamp to the second.
FormatRow(year, semester, marks, sgpa, now) ==
    <<IntToText(year), IntToText(semester)>>
    \o [i \in 1..5 |-> FloatRepr(marks[i])]
    \o <<Format2f(sgpa), IsoSeconds(now)>>

\* ------------------------------------------------------------------ grades

\* The thresholds compared with ">" instead of ">=".
marks_to_grade_point_strict(m) ==
    IF FGt(m, Num(90000)) THEN 10
    ELSE IF FGt(m, Num(80000)) THEN 9
    ELSE IF FGt(m, Num(70000)) THEN 8
    ELSE IF FGt(m, Num(60000)) THEN 7
    ELSE IF FGt(m, Num(50000)) THEN 6
    ELSE IF FGt(m, Num(40000)) THEN 5
    ELSE 0

marks_to_grade_point(m) ==
    IF FGe(m, Num(90000)) THEN 10
    ELSE IF FGe(m, Num(80000)) THEN 9
    ELSE IF FGe(m, Num(70000)) THEN 8
    ELSE IF FGe(m, Num(60000)) THEN 7
    ELSE IF FGe(m, Num(50000)) THEN 6
    ELSE IF FGe(m, Num(40000)) THEN 5
    ELSE 0

RECURSIVE SumSeq(_)
SumSeq(q) == IF q = <<>> THEN 0 ELSE Head(q) + SumSeq(Tail(q))

\* sum(gps) / len(gps) for integer grade points.  For the five marks of a
\* form the quotient is a multiple of 0.2, exact in thousandths.
MeanOf(gps) == Num((1000 * SumSeq(gps)) \div Len(gps))

compute_sgpa(marks) == MeanOf([i \in 1..Len(marks) |-> marks_to_grade_point(marks[i])])

\* ------------------------------------------------------------------ submit

flash(category, message, detail) ==
    [category |-> category, message |-> message, detail |-> detail]

\* "m < 0 or m > 100".
OutOfRange(m) == FLt(m, Num(0)) \/ FGt(m, Num(100000))

\* The first subject whose mark fails the range check, or 0.
FirstBadMark(marks) ==
    IF \E i \in 1..5 : OutOfRange(marks[i])
    THEN CHOOSE i \in 1..5 :
            OutOfRange(marks[i]) /\ \A j \in 1..(i - 1) : ~OutOfRange(marks[j])
    ELSE 0

\* submit after its try block, with the converted fields: the flash of the
\* check that rejects the form, or the arguments save_record is called with.
Checked(y, s, m, marks) ==
    IF ~(y.ok /\ s.ok /\ \A i \in 1..5 : m[i].ok)
    THEN [saved |-> FALSE, resp |-> flash("danger", "valid numbers", None)]
    ELSE IF y.val \notin {1, 2, 3, 4} \/ s.val \notin {1, 2}
    THEN [saved |-> FALSE, resp |-> flash("danger", "year and semester", None)]
    ELSE IF FirstBadMark(marks) # 0
    THEN [saved |-> FALSE,
          resp |-> flash("danger", "subject marks", PyInt(FirstBadMark(marks)))]
    ELSE [saved |-> TRUE, year |-> y.val, semester |-> s.val, marks |-> marks,
          sgpa |-> compute_sgpa(marks),
          resp |-> flash("success", "saved",
                         [year |-> y.val, semester |-> s.val,
                          sgpa |-> Format2f(compute_sgpa(marks))])]

Converted(y, s, m) == Checked(y, s, m, [i \in 1..5 |-> m[i].val])

\* submit up to its call of save_record.
Validate(req) ==
    Converted(ParseInt(req.year), ParseInt(req.semester),
              [i \in 1..5 |-> ParseFloat(req.marks[i])])

\* ------------------------------------------------------------------ inputs

Years == {<<"1">>, <<"2">>, <<"3">>, <<"4">>}

Semesters == {<<"1">>, <<"2">>}

\* 10 + 9 + 8 + 7 + 5 grade points: SGPA 7.8.
MarksA == <<<<"1", "0", "0">>, <<"8", "9", ".", "9">>, <<"7", "0">>,
            <<"6", "0", ".", "5">>, <<"4", "0">>>>

\* No subject reaches 40: SGPA 0.
MarksB == <<<<"3", "9", ".", "9">>, <<"0">>, <<"3", "0">>, <<"0", ".", "0">>,
            <<"3", "9", ".", "9", "9">>>>

\* Forms every field of which is in range.
GoodForms ==
    {[year |-> y, semester |-> s, marks |-> m] :
        y \in Years, s \in Semesters, m \in {MarksA, MarksB}}

BaseForm == [year |-> <<"1">>, semester |-> <<"1">>, marks |-> MarksA]

\* Year and semester fields that are out of range, no number, or missing.
OddYears == {<<"0">>, <<"5">>, <<"x">>, <<>>}

OddSemesters == {<<"0">>, <<"3">>, <<"1", ".", "5">>}

\* For subject i, a mark field outside the ordinary range: negative, above
\* 100, no number, infinite, not-a-number.
OddMark ==
    <<<<"-", "1">>, <<"1", "0", "1">>, <<"a", "b", "c">>, <<"i", "n", "f">>,
      <<"n", "a", "n">>>>

\* The base form with one field replaced.
OddForms ==
    {[BaseForm EXCEPT !.year = t] : t \in OddYears}
    \cup {[BaseForm EXCEPT !.semester = t] : t \in OddSemesters}
    \cup {[BaseForm EXCEPT !.marks[i] = OddMark[i]] : i \in 1..5}

Forms == GoodForms \cup OddForms

\* ?year_query: missing, a year, an int that is no year.
Queries == {None, PyInt(1), PyInt(7)}

\* The clock readings.
Clock == 0..MaxTime

\* Validate of every form of the model, computed once.
Validated == [req \in Forms |-> Validate(req)]

\* The arguments of every call of save_record in the model.
SaveCalls ==
    {<<Validated[req].year, Validated[req].semester, Validated[req].marks,
       Validated[req].sgpa, now>> :
        req \in {r \in Forms : Validated[r].saved}, now \in Clock}

\* FormatRow of every call of save_record, computed once.
SavedRows == [c \in SaveCalls |-> FormatRow(c[1], c[2], c[3], c[4], c[5])]

\* save_record opening the file with "w" instead of "a".
save_record_truncating(f, year, semester, marks, sgpa, now) ==
    [exists |-> TRUE, rows |-> <<SavedRows[<<year, semester, marks, sgpa, now>>]>>]

\* The file after save_record: ensured, then one row appended at the end.
save_record(f, year, semester, marks, sgpa, now) ==
    [exists |-> TRUE,
     rows |-> Append(ensure_data_file(f).rows, SavedRows[<<year, semester, marks, sgpa, now>>])]

\* The file submit leaves and the message it flashes, given the outcome v of
\* its checks and the clock reading now.
SubmitAfter(f, v, now) ==
    IF v.saved
    THEN [file |-> save_record(f, v.year, v.semester, v.marks, v.sgpa, now),
          resp |-> v.resp]
    ELSE [file |-> f, resp |-> v.resp]

submit(f, req, now) == SubmitAfter(f, Validated[req], now)


\* reset_graph writing the header only when the file is missing.
reset_graph_if_missing(f) == ensure_data_file(f)

\* The file after reset_graph: opened for writing, the header row alone.
reset_graph(f) == [exists |-> TRUE, rows |-> <<>>]

\* -------------------------------------------------------------------- load

\* Every row save_record can write for a form of the model.
Writable == {SavedRows[c] : c \in SaveCalls}

\* The row of the base form saved at second 0.
BaseRow == SavedRows[<<Validated[BaseForm].year, Validated[BaseForm].semester,
                       Validated[BaseForm].marks, Validated[BaseForm].sgpa, 0>>]

\* Rows as a damaged records.csv holds them: the base row with its year,
\* semester, a mark, the sgpa or the timestamp overwritten, with a mark blanked,
\* or cut short after the fifth mark.
DamagedRows ==
    {[BaseRow EXCEPT ![i] = <<"?">>] : i \in {1, 2, 3, 7, 8, 9}}
    \cup {[BaseRow EXCEPT ![4] = <<>>], SubSeq(BaseRow, 1, 7)}

\* Every row records.csv holds in the model.
StoredRows == Writable \cup DamagedRows

\* The record dict load_records builds from the converted cells of a row, or
\* the exception of a conversion that fails.
RecordOf(y, s, m, g, ts) ==
    IF y.ok /\ s.ok /\ (\A i \in 1..5 : m[i].ok) /\ g.ok
    THEN [ok |-> TRUE,
          rec |-> [k |-> "dict", year |-> y.val, semester |-> s.val,
                   marks |-> [i \in 1..5 |-> m[i].val],
                   sgpa |-> g.val, timestamp |-> ts]]
    ELSE [ok |-> FALSE, rec |-> None]

\* The body of load_records' loop for one row.
RowRecord(row) ==
    RecordOf(CellInt(Cell(row, 1)), CellInt(Cell(row, 2)),
             [i \in 1..5 |-> CellFloat(Cell(row, i + 2))],
             CellFloat(Cell(row, 8)), Cell(row, 9))

\* RowRecord of every row of the model, computed once.
Parsed == [row \in StoredRows |-> RowRecord(row)]

\* The assignment skipped when the key is already in the dict.
AssignKeepFirst(records, r) ==
    IF <<r.year, r.semester>> \in DOMAIN records
    THEN records
    ELSE Put(records, <<r.year, r.semester>>, r)

\* records[(y, s)] = record for the record r of the row just read.
Assign(records, r) == Put(records, <<r.year, r.semester>>, r)

\* The loop with "try: ... except ValueError: continue" around its body.
RECURSIVE ReadRowsSkipping(_, _, _, _)
ReadRowsSkipping(rows, i, records, r) ==
    IF i > Len(rows) THEN [raised |-> FALSE, records |-> records]
    ELSE ReadRowsSkipping(rows, i + 1,
                          IF r.ok THEN Assign(records, r.rec) ELSE records,
                          IF i + 1 > Len(rows) THEN None ELSE Parsed[rows[i + 1]])

\* load_records' loop from row i on, with the dict built so far and the
\* conversion r of row i (None past the last row): a later row overwrites an
\* earlier one with the same key, and a row that fails to parse raises out of
\* the whole call.
RECURSIVE ReadRows(_, _, _, _)
ReadRows(rows, i, records, r) ==
    IF i > Len(rows) THEN [raised |-> FALSE, records |-> records]
    ELSE IF ~r.ok THEN [raised |-> TRUE, records |-> None]
    ELSE ReadRows(rows, i + 1, Assign(records, r.rec),
                  IF i + 1 > Len(rows) THEN None ELSE Parsed[rows[i + 1]])

ReadAll(rows) ==
    ReadRows(rows, 1, EmptyDict, IF rows = <<>> THEN None ELSE Parsed[rows[1]])

\* load_records() on file f (after ensure_data_file).
load_records(f) == ReadAll(ensure_data_file(f).rows)

\* --------------------------------------------------------------- averages

\* total / n of a float total by an int count, kept as an exact quotient.
Quot(total, n) ==
    IF total.k = "num" THEN [k |-> "quot", n |-> total.v, d |-> 1000 * n] ELSE total

\* a + b on floats (a sum with a NaN or an infinity is not finite).
FAdd(a, b) ==
    CASE a.k = "num" /\ b.k = "num" -> Num(a.v + b.v)
      [] a.k = "nan" \/ b.k = "nan" -> NaN
      [] a.k = "inf" /\ b.k = "inf" /\ a.v # b.v -> NaN
      [] a.k = "inf" -> a
      [] OTHER -> b

\* The test "if s1 and s2" made on the two sgpa values.
YearCgpaOfNonZero(s1, s2) ==
    IF Truthy(s1) /\ Truthy(s2) /\ Truthy(s1.sgpa) /\ Truthy(s2.sgpa)
    THEN Quot(FAdd(s1.sgpa, s2.sgpa), 2)
    ELSE None

\* compute_year_cgpa after its two lookups s1 and s2.
YearCgpaOf(s1, s2) ==
    IF Truthy(s1) /\ Truthy(s2) THEN Quot(FAdd(s1.sgpa, s2.sgpa), 2) ELSE None

compute_year_cgpa(records, year) ==
    YearCgpaOf(Get(records, <<year, 1>>), Get(records, <<year, 2>>))

\* sum() of the sgpa of the records under the keys ks.
RECURSIVE SumSgpa(_, _)
SumSgpa(records, ks) ==
    IF ks = {} THEN Num(0)
    ELSE FAdd(records[CHOOSE x \in ks : TRUE].sgpa,
              SumSgpa(records, ks \ {CHOOSE x \in ks : TRUE}))

\* The sum divided by the eight slots instead of the records present.
compute_overall_cgpa_of_slots(records) ==
    IF DOMAIN records = {} THEN None
    ELSE Quot(SumSgpa(records, DOMAIN records), 8)

compute_overall_cgpa(records) ==
    IF DOMAIN records = {} THEN None
    ELSE Quot(SumSgpa(records, DOMAIN records), Cardinality(DOMAIN records))

\* ---------------------------------------------------------------- handlers

\* The i-th (year, semester) pair of "for y in range(1, 5): for s in [1, 2]".
Slot(i) == <<((i - 1) \div 2) + 1, ((i - 1) % 2) + 1>>

\* One row of index's table for the slot <<y, s>> and its lookup rec.
TableRow(y, s, rec) ==
    [year |-> y, semester |-> s,
     marks |-> IF Truthy(rec) THEN rec.marks ELSE None,
     sgpa |-> IF Truthy(rec) THEN Str(Format2f(rec.sgpa)) ELSE None,
     timestamp |-> IF Truthy(rec) THEN rec.timestamp ELSE None]

\* What index hands to the template, given the loaded records.
IndexOf(records, q) ==
    [status |-> 200,
     table_rows |-> [i \in 1..8 |-> TableRow(Slot(i)[1], Slot(i)[2], Get(records, Slot(i)))],
     year_cgpas |-> [y \in 1..4 |-> compute_year_cgpa(records, y)],
     overall_cgpa |-> compute_overall_cgpa(records),
     selected_year |-> q,
     selected_year_cgpa |->
         IF q.k = "int" /\ q.v \in {1, 2, 3, 4}
         THEN compute_year_cgpa(records, q.v)
         ELSE None]

\* A handler whose load_records raises ends as a server error.
IndexAfter(loaded, q) ==
    IF loaded.raised THEN [status |-> 500] ELSE IndexOf(loaded.records, q)

\* index for the query ?year_query=q (None when the parameter is missing or
\* no int).
index(f, q) == IndexAfter(load_records(f), q)

\* The indices i (0-based, increasing) of the values that are not None.
RECURSIVE PresentIdx(_, _)
PresentIdx(values, i) ==
    IF i > Len(values) THEN <<>>
    ELSE (IF values[i] # None THEN <<i - 1>> ELSE <<>>) \o PresentIdx(values, i + 1)

\* "f'{y}-{s}'" for the slots in order.
Labels == [i \in 1..8 |-> IntToText(Slot(i)[1]) \o <<"-">> \o IntToText(Slot(i)[2])]

\* "rec and rec['sgpa'] or None": an sgpa of 0 becomes a gap.
SgpaOrNoneFalsy(rec) == IF Truthy(rec) /\ Truthy(rec.sgpa) THEN rec.sgpa ELSE None

\* "rec['sgpa'] if rec else None".
SgpaOrNone(rec) == IF Truthy(rec) THEN rec.sgpa ELSE None

\* What graph_png draws from the plotted points xs / ys: the line with its
\* ticks and annotations, or the "No data yet" placeholder.
Drawn(values, xs, ys) ==
    IF ys # <<>>
    THEN [status |-> 200, labels |-> Labels, values |-> values,
          xs |-> xs, ys |-> ys, plotted |-> TRUE,
          xticklabels |-> Labels,
          texts |-> [j \in 1..Len(ys) |-> Format1f(ys[j])]]
    ELSE [status |-> 200, labels |-> Labels, values |-> values,
          xs |-> xs, ys |-> ys, plotted |-> FALSE,
          xticklabels |-> <<>>,
          texts |-> <<>>]

Points(values, xs) == Drawn(values, xs, [j \in 1..Len(xs) |-> values[xs[j] + 1]])

GraphOf(values) == Points(values, PresentIdx(values, 1))

GraphAfter(loaded) ==
    IF loaded.raised THEN [status |-> 500]
    ELSE GraphOf([i \in 1..8 |-> SgpaOrNone(Get(loaded.records, Slot(i)))])

graph_png(f) == GraphAfter(load_records(f))

\* ----------------------------------------------------------------- actions

Absent == [exists |-> FALSE, rows |-> <<>>]

Start == [op |-> "start", req |-> None, before |-> Absent, resp |-> None]

\* The application starts with records.csv missing, or left header-only.
Init ==
    /\ file \in {Absent, ensure_data_file(Absent)}
    /\ last = Start
    /\ log = <<>>

\* GET /: the page is index(file, q); the only effect on the state is
\* load_records' ensure_data_file.
Index ==
    /\ \E q \in Queries : index(file, q).status \in {200, 500}
    /\ file' = ensure_data_file(file)
    /\ UNCHANGED <<last, log>>

\* The save_record call submit makes with the outcome v of its checks.
Call(v, now) == <<v.year, v.semester, v.marks, v.sgpa, now>>

\* POST /submit.  A form is taken only while the file is below MaxRows rows.
Submit ==
    /\ Len(file.rows) < MaxRows
    /\ \E req \in Forms, now \in Clock :
        /\ file' = submit(file, req, now).file
        /\ last' = [op |-> "submit", req |-> req, before |-> file,
                    resp |-> submit(file, req, now).resp]
        /\ log' = IF Validated[req].saved
                  THEN Append(log, Call(Validated[req], now))
                  ELSE log

\* GET /graph.png: the image is graph_png(file); the only effect on the
\* state is load_records' ensure_data_file.
Graph ==
    /\ graph_png(file).status \in {200, 500}
    /\ file' = ensure_data_file(file)
    /\ UNCHANGED <<last, log>>

\* POST /reset-graph.  Of the file it found, last keeps whether it existed
\* and how many rows it held.
Reset ==
    /\ file' = reset_graph(file)
    /\ last' = [op |-> "reset_graph", req |-> None,
                before |-> [exists |-> file.exists, rows |-> Len(file.rows)],
                resp |-> flash("success", "reset", None)]
    /\ log' = <<>>

Next == Index \/ Submit \/ Graph \/ Reset

Spec == Init /\ [][Next]_vars

\* --------------------------------------------- grade conversion on its own

\* Marks around every threshold, at and beyond both ends of the range, and
\* the floats that are no finite number.
GradeMarks ==
    {Num(n) : n \in {-1000, 0, 39900, 40000, 49900, 50000, 59900, 60000, 69900,
                     70000, 79900, 80000, 89900, 90000, 100000, 101000}}
    \cup {NaN, PosInf, NegInf}

InitGrade ==
    /\ file = Absent
    /\ last = Start
    /\ log = <<>>

\* marks_to_grade_point applied to two marks.
Grade ==
    /\ \E x, y \in GradeMarks :
          last' = [op |-> "marks_to_grade_point", req |-> <<x, y>>, before |-> Absent,
                   resp |-> <<marks_to_grade_point(x), marks_to_grade_point(y)>>]
    /\ UNCHANGED <<file, log>>

NextGrade == Grade

SpecGrade == InitGrade /\ [][NextGrade]_vars

\* ------------------------------------------------- a records.csv found on disk

\* The rows a file found at start is made of: the damaged rows, and the rows
\* save_record writes for year 1.
Samples == DamagedRows \cup {SavedRows[c] : c \in {x \in SaveCalls : x[1] = 1}}

\* The application starts with a records.csv of up to MaxRows such rows.
InitStored ==
    /\ file \in {[exists |-> TRUE, rows |-> q] :
                    q \in UNION {[1..n -> Samples] : n \in 0..MaxRows}}
    /\ last = Start
    /\ log = <<>>

\* load_records called, its result (or that it raised) kept in last.
Load ==
    /\ file' = ensure_data_file(file)
    /\ last' = [op |-> "load_records", req |-> None, before |-> file,
                resp |-> load_records(file)]
    /\ UNCHANGED log

NextStored == Load \/ Index \/ Graph \/ Reset

SpecStored == InitStored /\ [][NextStored]_vars

\* ---------------------------------------------------------------- reference

\* The grade point the grading table gives a mark: 10 from 90, 9 from 80 to
\* below 90, 8 from 70, 7 from 60, 6 from 50, 5 from 40, and 0 below 40.
TablePoint(m) ==
    CASE FGe(m, Num(90000)) -> 10
      [] FGe(m, Num(80000)) /\ FLt(m, Num(90000)) -> 9
      [] FGe(m, Num(70000)) /\ FLt(m, Num(80000)) -> 8
      [] FGe(m, Num(60000)) /\ FLt(m, Num(70000)) -> 7
      [] FGe(m, Num(50000)) /\ FLt(m, Num(60000)) -> 6
      [] FGe(m, Num(40000)) /\ FLt(m, Num(50000)) -> 5
      [] OTHER -> 0

\* 0 <= m <= 100: the mark lies in the closed range.
InRange(m) == FGe(m, Num(0)) /\ FGe(Num(100000), m)

\* Every field of the form is a number, the year is 1..4, the semester 1 or
\* 2, and every mark lies in [0, 100].
FormInRange(req) ==
    /\ ParseInt(req.year).ok /\ ParseInt(req.year).val \in 1..4
    /\ ParseInt(req.semester).ok /\ ParseInt(req.semester).val \in 1..2
    /\ \A i \in 1..5 : ParseFloat(req.marks[i]).ok /\ InRange(ParseFloat(req.marks[i]).val)

InRangeForms == {req \in Forms : FormInRange(req)}

\* What an in-range form submits: its year, semester and marks as numbers,
\* and the mean of the table's grade points over its five marks.
Submitted ==
    [req \in InRangeForms |->
        [year |-> ParseInt(req.year).val,
         semester |-> ParseInt(req.semester).val,
         marks |-> [i \in 1..5 |-> ParseFloat(req.marks[i]).val],
         sgpa |-> Num(200 * (TablePoint(ParseFloat(req.marks[1]).val)
                             + TablePoint(ParseFloat(req.marks[2]).val)
                             + TablePoint(ParseFloat(req.marks[3]).val)
                             + TablePoint(ParseFloat(req.marks[4]).val)
                             + TablePoint(ParseFloat(req.marks[5]).val)))]]

\* The record r holds the year, semester, marks and sgpa of the submission v.
Holds(r, v) ==
    /\ r.year = v.year
    /\ r.semester = v.semester
    /\ r.marks = v.marks
    /\ r.sgpa = v.sgpa

\* The key of a save_record call, and the values it was called with.
Key(c) == <<c[1], c[2]>>

CallRecord(c) == [year |-> c[1], semester |-> c[2], marks |-> c[3], sgpa |-> c[4]]

\* The keys saved since the last reset, and the last call that saved a key.
LogKeys == {Key(log[i]) : i \in 1..Len(log)}

LastCall(key) ==
    log[CHOOSE i \in 1..Len(log) :
            Key(log[i]) = key /\ \A j \in (i + 1)..Len(log) : Key(log[j]) # key]

\* The sum, in thousandths, of the last-saved sgpa of the keys ks.
RECURSIVE SumLast(_)
SumLast(ks) ==
    IF ks = {} THEN 0
    ELSE LastCall(CHOOSE x \in ks : TRUE)[4].v + SumLast(ks \ {CHOOSE x \in ks : TRUE})

\* The eight slots in the chart's order, and the label of each.
CanonSlots ==
    <<<<1, 1>>, <<1, 2>>, <<2, 1>>, <<2, 2>>, <<3, 1>>, <<3, 2>>, <<4, 1>>, <<4, 2>>>>

CanonLabel(i) == <<Digits[CanonSlots[i][1] + 1], "-", Digits[CanonSlots[i][2] + 1]>>

\* --------------------------------------------------------------- properties

\* C1: a submit whose form has a field that is no number, a year outside
\* 1..4, a semester outside 1..2 or a mark outside the closed range [0, 100]
\* is rejected, and the file holds exactly the rows it held before the call.
C1_InvalidRejected ==
    (last.op = "submit" /\ last.req \notin InRangeForms)
        => (last.resp.category = "danger" /\ file.rows = last.before.rows)

\* C3: a submit of an in-range form is accepted and appends exactly one row
\* after the rows the file held, which stay as they were; the new row holds
\* the submitted year, semester and marks and the mean of their grade points,
\* and load_records then maps the form's key to those values.
C3_SubmitAppends ==
    (last.op = "submit" /\ last.req \in InRangeForms)
        => /\ last.resp.category = "success"
           /\ Len(file.rows) = Len(last.before.rows) + 1
           /\ SubSeq(file.rows, 1, Len(last.before.rows)) = last.before.rows
           /\ RowRecord(file.rows[Len(file.rows)]).ok
           /\ Holds(RowRecord(file.rows[Len(file.rows)]).rec, Submitted[last.req])
           /\ ~load_records(file).raised
           /\ <<Submitted[last.req].year, Submitted[last.req].semester>>
                  \in DOMAIN load_records(file).records
           /\ Holds(load_records(file).records[<<Submitted[last.req].year,
                                                 Submitted[last.req].semester>>],
                    Submitted[last.req])

\* C3 witness: an in-range form was saved into a file that already held a row.
C3_Witness ==
    /\ last.op = "submit"
    /\ last.req \in InRangeForms
    /\ last.resp.category = "success"
    /\ Len(last.before.rows) >= 1
    /\ Len(file.rows) = Len(last.before.rows) + 1

\* C2: load_records succeeds and returns a dict whose keys are exactly the
\* keys saved since the last reset, each mapped to the record of the last
\* call that saved it (values and timestamp), never to an earlier one.
C2_LastWins ==
    /\ ~load_records(file).raised
    /\ DOMAIN load_records(file).records = LogKeys
    /\ \A key \in LogKeys :
          /\ Holds(load_records(file).records[key], CallRecord(LastCall(key)))
          /\ load_records(file).records[key].timestamp = Str(IsoSeconds(LastCall(key)[5]))

\* C2 witness: one key was saved twice with different marks, and the dict
\* holds the marks of the second save.
C2_Witness ==
    /\ Len(log) = 2
    /\ Key(log[1]) = Key(log[2])
    /\ log[1][3] # log[2][3]
    /\ load_records(file).records[Key(log[2])].marks = log[2][3]

\* C4: after reset_graph the file is header-only, whatever it held or whether
\* it existed: load_records returns the empty dict and graph_png draws the
\* "no data" placeholder, with no point and no tick.
C4_ResetClears ==
    last.op = "reset_graph"
        => /\ file = [exists |-> TRUE, rows |-> <<>>]
           /\ load_records(file) = [raised |-> FALSE, records |-> EmptyDict]
           /\ graph_png(file).status = 200
           /\ ~graph_png(file).plotted
           /\ graph_png(file).xs = <<>>
           /\ graph_png(file).xticklabels = <<>>

\* C4 witness: reset_graph found a file with rows and left none.
C4_Witness ==
    /\ last.op = "reset_graph"
    /\ last.before.exists
    /\ last.before.rows >= 1
    /\ file.rows = <<>>

\* C5: for each year, compute_year_cgpa is a value exactly when the loaded
\* dict holds both semesters of the year, and then it is the mean of their
\* two sgpa; index hands the same value to the page.
C5_YearCgpa ==
    \A y \in 1..4 :
        LET recs == load_records(file).records
            r == compute_year_cgpa(load_records(file).records, y)
        IN  /\ (r # None) <=> ({<<y, 1>>, <<y, 2>>} \subseteq DOMAIN recs)
            /\ (r # None) =>
                  /\ r.k = "quot"
                  /\ r.d > 0
                  /\ r.n * 2000 = (recs[<<y, 1>>].sgpa.v + recs[<<y, 2>>].sgpa.v) * r.d
            /\ index(file, None).year_cgpas[y] = r

\* C5 witness: both semesters of a year are stored with sgpa 0, and the
\* year's value is present and zero.
C5_Witness ==
    \E y \in 1..4 :
        /\ {<<y, 1>>, <<y, 2>>} \subseteq LogKeys
        /\ LastCall(<<y, 1>>)[4] = Num(0)
        /\ LastCall(<<y, 2>>)[4] = Num(0)
        /\ compute_year_cgpa(load_records(file).records, y) # None
        /\ compute_year_cgpa(load_records(file).records, y).n = 0

\* C6: the overall CGPA index shows is None exactly when no key is stored;
\* otherwise it is the sum of the last-saved sgpa of the stored keys divided
\* by their number.
C6_OverallCgpa ==
    LET r == index(file, None).overall_cgpa
    IN  /\ (r = None) <=> (LogKeys = {})
        /\ (r = None) <=> (DOMAIN load_records(file).records = {})
        /\ (r # None) =>
              /\ r.k = "quot"
              /\ r.d > 0
              /\ r.n * 1000 * Cardinality(LogKeys) = SumLast(LogKeys) * r.d

\* C6 witness: a key was saved twice with different sgpa, and the overall
\* CGPA is the second one alone.
C6_Witness ==
    /\ Len(log) = 2
    /\ Key(log[1]) = Key(log[2])
    /\ log[1][4] # log[2][4]
    /\ index(file, None).overall_cgpa = [k |-> "quot", n |-> log[2][4].v, d |-> 1000]

\* C7: graph_png has the eight slots in canonical order with their labels;
\* a slot holds the last-saved sgpa of its key, or None when the key is not
\* stored; the plotted points are the stored slots in increasing order; and
\* the placeholder is drawn exactly when no slot is stored.
C7_TrendSeries ==
    LET g == graph_png(file)
    IN  /\ g.status = 200
        /\ Len(g.labels) = 8
        /\ Len(g.values) = 8
        /\ \A i \in 1..8 :
              /\ g.labels[i] = CanonLabel(i)
              /\ g.values[i] =
                    IF CanonSlots[i] \in LogKeys THEN LastCall(CanonSlots[i])[4] ELSE None
        /\ {g.xs[j] : j \in 1..Len(g.xs)} = {i - 1 : i \in {n \in 1..8 : CanonSlots[n] \in LogKeys}}
        /\ \A j \in 1..(Len(g.xs) - 1) : g.xs[j] < g.xs[j + 1]
        /\ Len(g.ys) = Len(g.xs)
        /\ \A j \in 1..Len(g.xs) : g.ys[j] = LastCall(CanonSlots[g.xs[j] + 1])[4]
        /\ g.plotted <=> (LogKeys # {})

\* C7 witness: a later slot was saved before an earlier one, one of the two
\* with sgpa 0, and both are plotted, the earlier slot first.
C7_Witness ==
    /\ Len(log) = 2
    /\ \E i, j \in 1..8 :
          /\ i > j
          /\ CanonSlots[i] = Key(log[1])
          /\ CanonSlots[j] = Key(log[2])
          /\ log[2][4] = Num(0)
          /\ graph_png(file).xs = <<j - 1, i - 1>>
          /\ graph_png(file).ys = <<log[2][4], log[1][4]>>

\* C10: load_records succeeds, and every record it returns has a year in
\* 1..4, a semester in 1..2, five marks each in [0, 100], and an sgpa in
\* [0, 10] equal to the mean of the grade points of its own marks.
C10_RecordsValid ==
    /\ ~load_records(file).raised
    /\ \A key \in DOMAIN load_records(file).records :
          LET r == load_records(file).records[key]
          IN  /\ r.year \in 1..4
              /\ r.semester \in 1..2
              /\ DOMAIN r.marks = 1..5
              /\ \A i \in 1..5 : InRange(r.marks[i])
              /\ FGe(r.sgpa, Num(0)) /\ FGe(Num(10000), r.sgpa)
              /\ r.sgpa = Num(200 * (TablePoint(r.marks[1]) + TablePoint(r.marks[2])
                                     + TablePoint(r.marks[3]) + TablePoint(r.marks[4])
                                     + TablePoint(r.marks[5])))

\* Some year, semester, mark or sgpa cell of the row is missing or no number.
RowDamaged(row) ==
    \/ Len(row) < 8
    \/ ~ParseInt(row[1]).ok
    \/ ~ParseInt(row[2]).ok
    \/ \E i \in 3..8 : ~ParseFloat(row[i]).ok

\* C8: marks_to_grade_point returns one of 0, 5..10 for every float; for a
\* mark that is a number it is the grading table's point; and it does not
\* decrease when the mark grows.
C8_GradePoint ==
    last.op = "marks_to_grade_point"
        => /\ last.resp[1] \in {0, 5, 6, 7, 8, 9, 10}
           /\ (last.req[1].k # "nan") => (last.resp[1] = TablePoint(last.req[1]))
           /\ FGe(last.req[2], last.req[1]) => (last.resp[1] <= last.resp[2])

\* C8 witness: 89.9 and 90 were converted, to 9 and 10.
C8_Witness ==
    /\ last.op = "marks_to_grade_point"
    /\ last.req = <<Num(89900), Num(90000)>>
    /\ last.resp = <<9, 10>>

\* C9: when a stored row has a year, semester, mark or sgpa cell that is no
\* number, load_records raises and returns no dict, whatever rows stand
\* before or after it, index and graph_png end as server errors, and the
\* rows of the file are as they were; with no such row every row is loaded.
C9_LoadFailsWhole ==
    last.op = "load_records"
        => /\ file.rows = last.before.rows
           /\ (\E i \in 1..Len(last.before.rows) : RowDamaged(last.before.rows[i]))
                 => /\ last.resp = [raised |-> TRUE, records |-> None]
                    /\ index(last.before, None).status = 500
                    /\ graph_png(last.before).status = 500
           /\ (\A i \in 1..Len(last.before.rows) : ~RowDamaged(last.before.rows[i]))
                 => /\ ~last.resp.raised
                    /\ DOMAIN last.resp.records =
                          {<<ParseInt(last.before.rows[i][1]).val,
                             ParseInt(last.before.rows[i][2]).val>> :
                              i \in 1..Len(last.before.rows)}

\* C9 witness: a good row stands before a damaged one, and the load raised.
C9_Witness ==
    /\ last.op = "load_records"
    /\ Len(last.before.rows) = 2
    /\ ~RowDamaged(last.before.rows[1])
    /\ RowDamaged(last.before.rows[2])
    /\ last.resp.raised

=============================================================================
